---------------------------- MODULE Spec2Model ----------------------------
(***************************************************************************)
(* A model of pyhtml (src/src/pyhtml/__init__.py): UIComponent.render,     *)
(* the UIApp document (components, styles), its two lru_cache'd renderers, *)
(* the page template and the route handler.                                *)
(*                                                                         *)
(* Python strings are sequences of tokens (TLA+ strings); a token is a run *)
(* of ordinary characters, except that each of the characters ', ", \ and  *)
(* newline coming from user data is a token of its own, so that repr() can *)
(* be computed as CPython computes it.  Python objects are records tagged  *)
(* with their type name in the field kind.                                 *)
(***************************************************************************)
EXTENDS Integers, Sequences, FiniteSets, TLC

(***************************************************************************)
(* Python values                                                           *)
(***************************************************************************)
None == [kind |-> "NoneType"]

PyStr(tokens) == [kind |-> "str", s |-> tokens]

PyInt(n) == [kind |-> "int", n |-> n]

PyBool(b) == [kind |-> "bool", b |-> b]

PyList(items) == [kind |-> "list", items |-> items]

\* dict[str, Any]: the entries in insertion order, each <<key, value>>.
PyDict(entries) == [kind |-> "dict", entries |-> entries]

\* The outcome of a call: a returned value, or a raised exception.
Return(v) == [exc |-> "none", ret |-> v]

Raise(e, msg) == [exc |-> e, msg |-> msg]

Digit == <<"0", "1", "2", "3", "4", "5", "6", "7", "8", "9">>

RECURSIVE NatDigits(_)
NatDigits(n) ==
    IF n < 10 THEN Digit[n + 1]
    ELSE NatDigits(n \div 10) \o Digit[(n % 10) + 1]

\* repr() of a str: the quote is " when the string holds ' and no ", else ';
\* backslash, the chosen quote and newline are escaped.
HasToken(tokens, t) == \E i \in 1..Len(tokens) : tokens[i] = t

ReprQuote(tokens) ==
    IF HasToken(tokens, "'") /\ ~HasToken(tokens, "\"") THEN "\"" ELSE "'"

ReprToken(t, quote) ==
    IF t = "\\" THEN "\\\\"
    ELSE IF t = "\n" THEN "\\n"
    ELSE IF t = quote THEN "\\" \o quote
    ELSE t

StrRepr(tokens) ==
    LET quote == ReprQuote(tokens)
    IN  <<quote>> \o [i \in 1..Len(tokens) |-> ReprToken(tokens[i], quote)]
            \o <<quote>>

\* str(value), as an f-string field or str.join's argument formats it.
RECURSIVE Repr(_), ReprItems(_, _)
Repr(v) ==
    CASE v.kind = "NoneType" -> <<"None">>
      [] v.kind = "str" -> StrRepr(v.s)
      [] v.kind = "int" -> IF v.n < 0 THEN <<"-", NatDigits(0 - v.n)>>
                           ELSE <<NatDigits(v.n)>>
      [] v.kind = "bool" -> IF v.b THEN <<"True">> ELSE <<"False">>
      [] v.kind = "list" -> <<"[">> \o ReprItems(v.items, 1) \o <<"]">>

ReprItems(items, i) ==
    IF i > Len(items) THEN <<>>
    ELSE Repr(items[i]) \o (IF i < Len(items) THEN <<", ">> ELSE <<>>)
            \o ReprItems(items, i + 1)

Format(v) == IF v.kind = "str" THEN v.s ELSE Repr(v)

\* type(value) as an f-string field formats it.
FormatType(v) == <<"<class '", v.kind, "'>">>

\* sep.join(items): TypeError on the first item that is not a str.
RECURSIVE Join(_, _, _)
Join(sep, items, i) ==
    IF i > Len(items) THEN Return(PyStr(<<>>))
    ELSE IF items[i].kind # "str"
    THEN Raise("TypeError",
               <<"sequence item ", NatDigits(i - 1),
                 ": expected str instance, ", items[i].kind, " found">>)
    ELSE LET rest == Join(sep, items, i + 1)
         IN  IF rest.exc # "none" THEN rest
             ELSE Return(PyStr(items[i].s
                               \o (IF i < Len(items) THEN sep ELSE <<>>)
                               \o rest.ret.s))

isinstance(v, kind) == v.kind = kind

\* Python truthiness of a properties argument: None and {} are falsy.
Truthy(v) ==
    CASE v.kind = "NoneType" -> FALSE
      [] v.kind = "dict" -> Len(v.entries) > 0
      [] OTHER -> TRUE

(***************************************************************************)
(* _render_properties and UIComponent                                      *)
(***************************************************************************)
\* A variant that forgets the quotes around a string value.
PropertyValueUnquoted(value) == Format(value)

\* if isinstance(value, str): value = f'"{value}"'
PropertyValue(value) ==
    IF isinstance(value, "str") THEN <<"\"">> \o value.s \o <<"\"">>
    ELSE Format(value)

RECURSIVE RenderedProperties(_, _)
RenderedProperties(entries, i) ==
    IF i > Len(entries) THEN <<>>
    ELSE <<PyStr(<<entries[i][1], "=">> \o PropertyValue(entries[i][2]))>>
            \o RenderedProperties(entries, i + 1)

_render_properties(properties) ==
    Join(<<" ">>, RenderedProperties(properties.entries, 1), 1).ret

UIComponent(data, tag, properties) ==
    [kind |-> "UIComponent", data |-> data, tag |-> tag,
     properties |-> properties]

RECURSIVE render(_), RenderNested(_, _, _)
render(self) ==
    LET rendered_body ==
            IF ~isinstance(self.data, "list") /\ self.data # None
            THEN Return(PyList(<<self.data>>))
            ELSE IF isinstance(self.data, "list")
            THEN RenderNested(self.data.items, 1, <<>>)
            ELSE Return(PyList(<<>>))
    IN  IF rendered_body.exc # "none" THEN rendered_body
        ELSE LET properties == IF Truthy(self.properties)
                               THEN _render_properties(self.properties)
                               ELSE PyStr(<<>>)
                 body == Join(<<>>, rendered_body.ret.items, 1)
             IN  IF body.exc # "none" THEN body
                 ELSE Return(PyStr(<<"<">> \o Format(self.tag) \o <<" ">>
                                   \o Format(properties) \o <<">">>
                                   \o body.ret.s
                                   \o <<"</">> \o Format(self.tag) \o <<">">>))

RenderNested(items, i, rendered_body) ==
    IF i > Len(items) THEN Return(PyList(rendered_body))
    ELSE IF ~isinstance(items[i], "UIComponent")
    THEN Raise("ValueError",
               <<"Expected UIComponent nested data to contain list of UIComponents but got ">>
               \o FormatType(items[i]))
    ELSE LET r == render(items[i])
         IN  IF r.exc # "none" THEN r
             ELSE RenderNested(items, i + 1, Append(rendered_body, r.ret))

(***************************************************************************)
(* dict operations used by UIApp                                           *)
(***************************************************************************)
HasKey(entries, key) == \E i \in 1..Len(entries) : entries[i][1] = key

\* A variant that moves a key set again to the end.
SetItemMovesLast(entries, key, value) ==
    Append(SelectSeq(entries, LAMBDA e : e[1] # key), <<key, value>>)

\* d[key] = value: an existing key keeps its place, a new one goes last.
SetItem(entries, key, value) ==
    IF HasKey(entries, key)
    THEN [i \in 1..Len(entries) |->
            IF entries[i][1] = key THEN <<key, value>> ELSE entries[i]]
    ELSE Append(entries, <<key, value>>)

RECURSIVE Update(_, _, _)
Update(entries, other, i) ==
    IF i > Len(other) THEN entries
    ELSE Update(SetItem(entries, other[i][1], other[i][2]), other, i + 1)

\* A variant in which the left operand wins.
DictOrLeftWins(left, right) == PyDict(Update(right.entries, left.entries, 1))

\* left | right: a copy of left updated with right (right wins).
DictOr(left, right) == PyDict(Update(left.entries, right.entries, 1))

(***************************************************************************)
(* functools.lru_cache(maxsize=1): one cache per decorated function,       *)
(* shared by every instance, keyed by the arguments (self).  The entries   *)
(* are kept least recently used first.                                     *)
(***************************************************************************)
maxsize == 1

CacheHit(cache, key) == \E i \in 1..Len(cache) : cache[i].key = key

CacheValue(cache, key) ==
    cache[CHOOSE i \in 1..Len(cache) : cache[i].key = key].value

CacheWithout(cache, key) == SelectSeq(cache, LAMBDA e : e.key # key)

\* A hit moves the entry to the most recently used end.
CacheTouch(cache, key) ==
    Append(CacheWithout(cache, key), [key |-> key, value |-> CacheValue(cache, key)])

\* After a miss: keep the entry another caller stored meanwhile, else add
\* the result and evict the least recently used entry when full.
CacheStore(cache, key, value) ==
    IF CacheHit(cache, key) THEN cache
    ELSE LET added == Append(cache, [key |-> key, value |-> value])
         IN  IF Len(added) > maxsize THEN Tail(added) ELSE added

\* One call of the wrapper: <<outcome, cache afterwards>>.
CachedCall(cache, key, computed) ==
    IF CacheHit(cache, key)
    THEN <<Return(CacheValue(cache, key)), CacheTouch(cache, key)>>
    ELSE IF computed.exc # "none" THEN <<computed, cache>>
    ELSE <<computed, CacheStore(cache, key, computed.ret)>>

(***************************************************************************)
(* _BaseUIApp: the bodies of the two cached renderers and the template     *)
(***************************************************************************)
_default_title == PyStr(<<"Built with PyHTML!">>)

\* [component.render() for component in self._components]
RECURSIVE RenderAll(_, _, _)
RenderAll(components, i, rendered) ==
    IF i > Len(components) THEN Return(PyList(rendered))
    ELSE LET r == render(components[i])
         IN  IF r.exc # "none" THEN r
             ELSE RenderAll(components, i + 1, Append(rendered, r.ret))

_render_components(components) ==
    LET rendered == RenderAll(components, 1, <<>>)
    IN  IF rendered.exc # "none" THEN rendered
        ELSE LET joined == Join(<<>>, rendered.ret.items, 1)
             IN  IF joined.exc # "none" THEN joined
                 ELSE Return(PyList(<<joined.ret>>))

RECURSIVE StyleBody(_, _)
StyleBody(entries, i) ==
    IF i > Len(entries) THEN <<>>
    ELSE <<PyStr(<<entries[i][1], ": ">> \o Format(entries[i][2]))>>
            \o StyleBody(entries, i + 1)

RECURSIVE RenderedStyles(_, _)
RenderedStyles(styles, i) ==
    IF i > Len(styles) THEN <<>>
    ELSE LET selector == styles[i][1]
             properties == styles[i][2]
             style_body == StyleBody(properties.entries, 1)
         IN  <<PyStr(<<selector, "{">> \o Join(<<",\n">>, style_body, 1).ret.s
                     \o <<"}">>)>>
                 \o RenderedStyles(styles, i + 1)

_render_pregenerated_styles(styles) ==
    Join(<<"\n">>, RenderedStyles(styles.entries, 1), 1)

\* The f-string of _generate_html_content, given its two rendered fields.
HtmlTemplate(styles, components) ==
    PyStr(<<"\n", "<html>", "\n    ", "<head>", "\n        ", "<title>">>
          \o Format(_default_title)
          \o <<"</title>", "\n        ", "<style>">>
          \o Format(styles)
          \o <<"</style>", "\n    ", "</head>", "\n    ", "<body>", "\n        ">>
          \o Format(components)
          \o <<"\n    ", "</body>", "\n", "</html>", "\n        ">>)

\* _generate_html_content called with nothing running beside it:
\* <<outcome, styles cache afterwards, components cache afterwards>>.
_generate_html_content(self, styles, components, scache, ccache) ==
    LET s == CachedCall(scache, self, _render_pregenerated_styles(styles))
    IN  IF s[1].exc # "none" THEN <<s[1], s[2], ccache>>
        ELSE LET c == CachedCall(ccache, self, _render_components(components))
             IN  IF c[1].exc # "none" THEN <<c[1], s[2], c[2]>>
                 ELSE <<Return(HtmlTemplate(s[1].ret, c[1].ret)), s[2], c[2]>>

HTMLResponse(content, status_code) ==
    [kind |-> "HTMLResponse", content |-> content, status_code |-> status_code]

(***************************************************************************)
(* State                                                                   *)
(***************************************************************************)
Apps == {"ui", "other"}

MaxRequests == 2

Requests == 1..MaxRequests

VARIABLES
    component,              \* the UIComponent the caller has built so far
    _components,            \* app -> list of UIComponent
    _pregenerated_styles,   \* app -> dict selector -> properties
    components_cache,       \* the lru_cache of _render_components
    styles_cache,           \* the lru_cache of _render_pregenerated_styles
    index_html,             \* the file build() writes, None while absent
    serving,                \* the app whose run() holds the main thread
    pc,                     \* request -> where its route handler stands
    frame,                  \* request -> the handler's local values
    response,               \* request -> what the handler gave back
    ret,                    \* the last call of the main thread, its outcome
    style_calls,            \* history: app -> the style() calls made, in order
    first_returned          \* history: app -> first value each renderer gave

vars == <<component, _components, _pregenerated_styles, components_cache,
          styles_cache, index_html, serving, pc, frame, response, ret,
          style_calls, first_returned>>

appVars == <<_components, _pregenerated_styles, components_cache,
             styles_cache, index_html, style_calls, first_returned>>

serveVars == <<serving, pc, frame, response>>

NoCall == [op |-> "none"]

NotServing == "nobody"

NoFrame == [styles |-> None, components |-> None]

Init ==
    /\ component = None
    /\ _components = [app \in Apps |-> <<>>]
    /\ _pregenerated_styles = [app \in Apps |-> PyDict(<<>>)]
    /\ components_cache = <<>>
    /\ styles_cache = <<>>
    /\ index_html = None
    /\ serving = NotServing
    /\ pc = [r \in Requests |-> "idle"]
    /\ frame = [r \in Requests |-> NoFrame]
    /\ response = [r \in Requests |-> NoCall]
    /\ ret = NoCall
    /\ style_calls = [app \in Apps |-> <<>>]
    /\ first_returned = [app \in Apps |-> [styles |-> NoCall, components |-> NoCall]]

\* The main thread runs the caller's script until run() blocks it.
MainThread == serving = NotServing

(***************************************************************************)
(* Inputs of the calls                                                     *)
(***************************************************************************)
MaxNest == 2

Tags == {PyStr(<<"span">>), PyStr(<<"hr">>)}

PropertiesInputs ==
    { None,
      PyDict(<<>>),
      PyDict(<< <<"class", PyStr(<<"x">>)>>, <<"tabindex", PyInt(3)>>,
                <<"hidden", PyBool(TRUE)>> >>) }

DataInputs ==
    { None,
      PyStr(<<"hi">>),
      PyStr(<<>>),
      PyStr(<<"it", "'", "s">>),
      PyInt(5),
      PyBool(FALSE),
      PyList(<<>>),
      PyList(<<PyStr(<<"oops">>)>>),
      PyList(<<PyInt(7)>>) }

NestProperties == {None, PyDict(<< <<"id", PyStr(<<"n">>)>> >>)}

SiblingsBefore ==
    { <<>>,
      <<UIComponent(PyStr(<<"a">>), PyStr(<<"span">>), None)>>,
      <<UIComponent(PyInt(12), PyStr(<<"span">>), None)>>,
      <<PyStr(<<"oops">>)>> }

SiblingsAfter ==
    { <<>>, <<UIComponent(None, PyStr(<<"hr">>), None)>> }

RECURSIVE Depth(_)
Depth(c) ==
    IF isinstance(c, "UIComponent") /\ isinstance(c.data, "list")
    THEN LET below == {Depth(c.data.items[i]) : i \in 1..Len(c.data.items)}
         IN  1 + (IF below = {} THEN 0
                  ELSE CHOOSE m \in below : \A k \in below : k <= m)
    ELSE 0

(***************************************************************************)
(* Calls on a UIComponent                                                  *)
(***************************************************************************)
\* UIComponent(data, tag, properties): the innermost component of the tree
\* a behaviour follows.
Construct(data, tag, properties) ==
    /\ MainThread
    /\ component = None
    /\ component' = UIComponent(data, tag, properties)
    /\ ret' = NoCall
    /\ UNCHANGED <<appVars, serveVars>>

\* UIComponent([..., component, ...], tag, properties)
Nest(before, after, tag, properties) ==
    /\ MainThread
    /\ isinstance(component, "UIComponent")
    /\ Depth(component) < MaxNest
    /\ component' = UIComponent(PyList(before \o <<component>> \o after),
                                tag, properties)
    /\ ret' = NoCall
    /\ UNCHANGED <<appVars, serveVars>>

\* component.render()
CallRender ==
    /\ MainThread
    /\ isinstance(component, "UIComponent")
    /\ ret' = [op |-> "render", result |-> render(component)]
    /\ UNCHANGED <<component, appVars, serveVars>>

NextRender ==
    \/ \E data \in DataInputs, tag \in Tags, properties \in PropertiesInputs :
            Construct(data, tag, properties)
    \/ \E before \in SiblingsBefore, after \in SiblingsAfter,
          properties \in NestProperties :
            Nest(before, after, PyStr(<<"div">>), properties)
    \/ CallRender

SpecRender == Init /\ [][NextRender]_vars

(***************************************************************************)
(* Calls on a UIApp                                                        *)
(***************************************************************************)
MaxComponents == 2

MaxStyleCalls == 3

\* self._components.append(component)
add_component(self, c) ==
    /\ MainThread
    /\ Len(_components[self]) < MaxComponents
    /\ _components' = [_components EXCEPT ![self] = Append(@, c)]
    /\ ret' = [op |-> "add_component", app |-> self, arg |-> c,
               result |-> Return(None)]
    /\ UNCHANGED <<component, _pregenerated_styles, components_cache,
                   styles_cache, index_html, style_calls, first_returned,
                   serveVars>>

\* self._pregenerated_styles[selector] = properties
style(self, selector, properties) ==
    /\ MainThread
    /\ Len(style_calls[self]) < MaxStyleCalls
    /\ _pregenerated_styles' =
            [_pregenerated_styles EXCEPT
                ![self] = PyDict(SetItem(@.entries, selector, properties))]
    /\ style_calls' = [style_calls EXCEPT ![self] = Append(@, <<selector, properties>>)]
    /\ ret' = [op |-> "style", app |-> self, result |-> Return(None)]
    /\ UNCHANGED <<component, _components, components_cache, styles_cache,
                   index_html, first_returned, serveVars>>

\* The UIComponent _tag_shortcut builds from its arguments.
ShortcutComponent(tag, data, properties, kwargs) ==
    LET merged == IF properties # None THEN DictOr(kwargs, properties)
                  ELSE kwargs
    IN  UIComponent(data, PyStr(<<"span">>), merged)

_tag_shortcut(self, op, tag, data, properties, kwargs) ==
    /\ MainThread
    /\ Len(_components[self]) < MaxComponents
    /\ _components' =
            [_components EXCEPT
                ![self] = Append(@, ShortcutComponent(tag, data, properties, kwargs))]
    /\ ret' = [op |-> op, app |-> self, data |-> data,
               properties |-> properties, kwargs |-> kwargs,
               result |-> Return(None)]
    /\ UNCHANGED <<component, _pregenerated_styles, components_cache,
                   styles_cache, index_html, style_calls, first_returned,
                   serveVars>>

span(self, data, properties, kwargs) ==
    _tag_shortcut(self, "span", "span", data, properties, kwargs)

button(self, data, properties, kwargs) ==
    _tag_shortcut(self, "button", "button", data, properties, kwargs)

div(self, data, properties, kwargs) ==
    _tag_shortcut(self, "div", "div", data, properties, kwargs)

\* The first value a renderer returned for an app stays on record.
Recorded(was, result) ==
    IF was = NoCall /\ result.exc = "none" THEN result ELSE was

\* self._render_components()
CallRenderComponents(self) ==
    /\ MainThread
    /\ LET call == CachedCall(components_cache, self,
                              _render_components(_components[self]))
       IN  /\ components_cache' = call[2]
           /\ ret' = [op |-> "_render_components", app |-> self,
                      first |-> first_returned[self].components = NoCall,
                      rendered |-> ~CacheHit(components_cache, self),
                      result |-> call[1]]
           /\ first_returned' =
                [first_returned EXCEPT
                    ![self].components = Recorded(@, call[1])]
    /\ UNCHANGED <<component, _components, _pregenerated_styles, styles_cache,
                   index_html, style_calls, serveVars>>

\* self._render_pregenerated_styles()
CallRenderStyles(self) ==
    /\ MainThread
    /\ LET call == CachedCall(styles_cache, self,
                              _render_pregenerated_styles(_pregenerated_styles[self]))
       IN  /\ styles_cache' = call[2]
           /\ ret' = [op |-> "_render_pregenerated_styles", app |-> self,
                      first |-> first_returned[self].styles = NoCall,
                      result |-> call[1]]
           /\ first_returned' =
                [first_returned EXCEPT ![self].styles = Recorded(@, call[1])]
    /\ UNCHANGED <<component, _components, _pregenerated_styles,
                   components_cache, index_html, style_calls, serveVars>>

\* What one _generate_html_content() on the main thread leaves behind.
Generated(self) ==
    _generate_html_content(self, _pregenerated_styles[self], _components[self],
                           styles_cache, components_cache)

GenerateEffects(self, g) ==
    /\ styles_cache' = g[2]
    /\ components_cache' = g[3]
    /\ first_returned' =
            [first_returned EXCEPT
                ![self].styles =
                    IF CacheHit(g[2], self)
                    THEN Recorded(@, Return(CacheValue(g[2], self))) ELSE @,
                ![self].components =
                    IF CacheHit(g[3], self)
                    THEN Recorded(@, Return(CacheValue(g[3], self))) ELSE @]

\* self._generate_html_content()
CallGenerateHtmlContent(self) ==
    /\ MainThread
    /\ LET g == Generated(self)
       IN  /\ GenerateEffects(self, g)
           /\ ret' = [op |-> "_generate_html_content", app |-> self,
                      first |-> /\ first_returned[self].styles = NoCall
                                /\ first_returned[self].components = NoCall,
                      rendered |-> ~CacheHit(components_cache, self),
                      result |-> g[1]]
    /\ UNCHANGED <<component, _components, _pregenerated_styles, index_html,
                   style_calls, serveVars>>

\* self.build(): open() truncates the file before the content is generated.
build(self) ==
    /\ MainThread
    /\ LET g == Generated(self)
       IN  /\ GenerateEffects(self, g)
           /\ index_html' = IF g[1].exc = "none" THEN g[1].ret ELSE PyStr(<<>>)
           /\ ret' = [op |-> "build", app |-> self,
                      result |-> IF g[1].exc = "none" THEN Return(None) ELSE g[1]]
    /\ UNCHANGED <<component, _components, _pregenerated_styles, style_calls,
                   serveVars>>
(***************************************************************************)
(* Serving: run() and the route handler, one thread per request            *)
(***************************************************************************)
\* self.run(): uvicorn.run(app) keeps the main thread until the process ends.
run(self) ==
    /\ MainThread
    /\ serving' = self
    /\ ret' = [op |-> "run", app |-> self]
    /\ UNCHANGED <<component, appVars, pc, frame, response>>

\* A request arrives: _route_handler starts on a worker thread.
HandlerStart(r) ==
    /\ serving # NotServing
    /\ pc[r] = "idle"
    /\ pc' = [pc EXCEPT ![r] = "styles"]
    /\ UNCHANGED <<component, appVars, serving, frame, response, ret>>

\* The lru_cache wrapper of _render_pregenerated_styles looks the key up.
HandlerStylesLookup(r) ==
    /\ pc[r] = "styles"
    /\ IF CacheHit(styles_cache, serving)
       THEN /\ frame' = [frame EXCEPT ![r].styles = CacheValue(styles_cache, serving)]
            /\ styles_cache' = CacheTouch(styles_cache, serving)
            /\ pc' = [pc EXCEPT ![r] = "components"]
       ELSE /\ pc' = [pc EXCEPT ![r] = "styles_miss"]
            /\ UNCHANGED <<frame, styles_cache>>
    /\ UNCHANGED <<component, _components, _pregenerated_styles,
                   components_cache, index_html, style_calls, first_returned,
                   serving, response, ret>>

\* On a miss the wrapped function runs, outside the wrapper's lock.
HandlerStylesCompute(r) ==
    /\ pc[r] = "styles_miss"
    /\ frame' = [frame EXCEPT
                    ![r].styles =
                        _render_pregenerated_styles(_pregenerated_styles[serving]).ret]
    /\ pc' = [pc EXCEPT ![r] = "styles_store"]
    /\ UNCHANGED <<component, appVars, serving, response, ret>>

HandlerStylesStore(r) ==
    /\ pc[r] = "styles_store"
    /\ styles_cache' = CacheStore(styles_cache, serving, frame[r].styles)
    /\ pc' = [pc EXCEPT ![r] = "components"]
    /\ UNCHANGED <<component, _components, _pregenerated_styles,
                   components_cache, index_html, style_calls, first_returned,
                   serving, frame, response, ret>>

HandlerComponentsLookup(r) ==
    /\ pc[r] = "components"
    /\ IF CacheHit(components_cache, serving)
       THEN /\ frame' = [frame EXCEPT
                            ![r].components = CacheValue(components_cache, serving)]
            /\ components_cache' = CacheTouch(components_cache, serving)
            /\ pc' = [pc EXCEPT ![r] = "respond"]
       ELSE /\ pc' = [pc EXCEPT ![r] = "components_miss"]
            /\ UNCHANGED <<frame, components_cache>>
    /\ UNCHANGED <<component, _components, _pregenerated_styles, styles_cache,
                   index_html, style_calls, first_returned, serving, response,
                   ret>>

\* An exception of a component's render() leaves the handler: no response.
HandlerComponentsCompute(r) ==
    /\ pc[r] = "components_miss"
    /\ LET computed == _render_components(_components[serving])
       IN  IF computed.exc # "none"
           THEN /\ response' = [response EXCEPT ![r] = computed]
                /\ frame' = [frame EXCEPT ![r] = NoFrame]
                /\ pc' = [pc EXCEPT ![r] = "done"]
           ELSE /\ frame' = [frame EXCEPT ![r].components = computed.ret]
                /\ pc' = [pc EXCEPT ![r] = "components_store"]
                /\ UNCHANGED response
    /\ UNCHANGED <<component, appVars, serving, ret>>

HandlerComponentsStore(r) ==
    /\ pc[r] = "components_store"
    /\ components_cache' = CacheStore(components_cache, serving, frame[r].components)
    /\ pc' = [pc EXCEPT ![r] = "respond"]
    /\ UNCHANGED <<component, _components, _pregenerated_styles, styles_cache,
                   index_html, style_calls, first_returned, serving, frame,
                   response, ret>>

\* A variant that answers with another status.
RouteHandlerServerError(content) == Return(HTMLResponse(content, 500))

\* return HTMLResponse(self._generate_html_content(), status_code=200)
_route_handler(content) == Return(HTMLResponse(content, 200))

HandlerRespond(r) ==
    /\ pc[r] = "respond"
    /\ response' = [response EXCEPT
                        ![r] = _route_handler(HtmlTemplate(frame[r].styles,
                                                           frame[r].components))]
    /\ frame' = [frame EXCEPT ![r] = NoFrame]
    /\ pc' = [pc EXCEPT ![r] = "done"]
    /\ UNCHANGED <<component, appVars, serving, ret>>

(***************************************************************************)
(* Inputs of the calls on a UIApp, and the specifications                  *)
(***************************************************************************)
Hr == UIComponent(None, PyStr(<<"hr">>), None)

SpanHi ==
    UIComponent(PyStr(<<"hi">>), PyStr(<<"span">>),
                PyDict(<< <<"class", PyStr(<<"x">>)>> >>))

\* A list whose last element is a plain string.
DivOops ==
    UIComponent(PyList(<<UIComponent(PyStr(<<"a">>), PyStr(<<"span">>), None),
                         PyStr(<<"oops">>)>>),
                PyStr(<<"div">>), None)

\* The same, after a sibling whose data is a number.
DivNumberOops ==
    UIComponent(PyList(<<UIComponent(PyInt(5), PyStr(<<"span">>), None),
                         PyStr(<<"oops">>)>>),
                PyStr(<<"div">>), None)

Red == PyDict(<< <<"color", PyStr(<<"red">>)>> >>)

Blue == PyDict(<< <<"color", PyStr(<<"blue">>)>> >>)

Sized == PyDict(<< <<"font-size", PyStr(<<"12px">>)>>, <<"z-index", PyInt(2)>> >>)

ShortcutData == {None, PyStr(<<"click me">>)}

ShortcutProperties ==
    { None, PyDict(<<>>),
      PyDict(<< <<"class", PyStr(<<"x">>)>> >>),
      PyDict(<< <<"id", PyStr(<<"p">>)>>, <<"class", PyStr(<<"x">>)>> >>) }

ShortcutKwargs ==
    { PyDict(<<>>),
      PyDict(<< <<"class", PyStr(<<"y">>)>> >>),
      PyDict(<< <<"style", PyStr(<<"color: red">>)>>, <<"class", PyStr(<<"y">>)>>,
                <<"tabindex", PyInt(1)>> >>) }

\* Two documents in one process: "ui" is set up and rendered, "other" is
\* rendered beside it.
Next ==
    \/ \E c \in {SpanHi, DivNumberOops} : add_component("ui", c)
    \/ add_component("other", Hr)
    \/ \E properties \in {Red, Blue} : style("ui", ".a", properties)
    \/ \E self \in Apps : CallRenderComponents(self)
    \/ \E self \in Apps : CallRenderStyles(self)
    \/ \E self \in Apps : CallGenerateHtmlContent(self)

Spec == Init /\ [][Next]_vars

\* The named-tag shortcuts of one document.
NextShortcut ==
    \/ \E data \in ShortcutData, properties \in ShortcutProperties,
          kwargs \in ShortcutKwargs : span("ui", data, properties, kwargs)
    \/ \E data \in ShortcutData, properties \in ShortcutProperties,
          kwargs \in ShortcutKwargs : button("ui", data, properties, kwargs)
    \/ \E data \in ShortcutData, properties \in ShortcutProperties,
          kwargs \in ShortcutKwargs : div("ui", data, properties, kwargs)

SpecShortcut == Init /\ [][NextShortcut]_vars

\* The style registry and its renderer.
NextStyle ==
    \/ \E selector \in {".a", ".b"}, properties \in {Red, Sized} :
            style("ui", selector, properties)
    \/ style("other", ".a", Blue)
    \/ \E self \in Apps : CallRenderStyles(self)

SpecStyle == Init /\ [][NextStyle]_vars

\* main.py: set the document up, build(), then run() and serve requests.
NextServe ==
    \/ \E c \in {SpanHi, DivOops} : add_component("ui", c)
    \/ style("ui", ".a", Red)
    \/ build("ui")
    \/ run("ui")
    \/ \E r \in Requests : HandlerStart(r)
    \/ \E r \in Requests : HandlerStylesLookup(r)
    \/ \E r \in Requests : HandlerStylesCompute(r)
    \/ \E r \in Requests : HandlerStylesStore(r)
    \/ \E r \in Requests : HandlerComponentsLookup(r)
    \/ \E r \in Requests : HandlerComponentsCompute(r)
    \/ \E r \in Requests : HandlerComponentsStore(r)
    \/ \E r \in Requests : HandlerRespond(r)

SpecServe == Init /\ [][NextServe]_vars

(***************************************************************************)
(* Properties                                                              *)
(***************************************************************************)
Last(seq) == seq[Len(seq)]

Keys(d) == {d.entries[i][1] : i \in 1..Len(d.entries)}

Lookup(d, key) == d.entries[CHOOSE i \in 1..Len(d.entries) : d.entries[i][1] = key][2]

RECURSIVE Concat(_)
Concat(seqs) == IF seqs = <<>> THEN <<>> ELSE Head(seqs) \o Concat(Tail(seqs))

Shortcuts == {"span", "div", "button"}

\* Every content list, at every depth, holds UIComponents only.
RECURSIVE NestedOk(_)
NestedOk(c) ==
    isinstance(c.data, "list") =>
        \A i \in 1..Len(c.data.items) :
            /\ isinstance(c.data.items[i], "UIComponent")
            /\ NestedOk(c.data.items[i])

\* The elements of content lists, at any depth, that are no UIComponent.
RECURSIVE BadElements(_)
BadElements(c) ==
    IF ~isinstance(c.data, "list") THEN {}
    ELSE UNION { IF isinstance(c.data.items[i], "UIComponent")
                 THEN BadElements(c.data.items[i])
                 ELSE {c.data.items[i]} : i \in 1..Len(c.data.items) }

\* String, null or list content, at every depth.
RECURSIVE TextOnly(_)
TextOnly(c) ==
    \/ c.data = None
    \/ isinstance(c.data, "str")
    \/ /\ isinstance(c.data, "list")
       /\ \A i \in 1..Len(c.data.items) :
            /\ isinstance(c.data.items[i], "UIComponent")
            /\ TextOnly(c.data.items[i])

OpenTag(c, attrs) == <<"<">> \o c.tag.s \o <<" ">> \o attrs \o <<">">>

CloseTag(c) == <<"</">> \o c.tag.s \o <<">">>

\* C1: a named-tag shortcut appends exactly one component to the app's list,
\* and its tag is the name of the shortcut called.
C1_ShortcutTag ==
    [][ret'.op \in Shortcuts =>
        /\ Len(_components'[ret'.app]) = Len(_components[ret'.app]) + 1
        /\ SubSeq(_components'[ret'.app], 1, Len(_components[ret'.app]))
                = _components[ret'.app]
        /\ Last(_components'[ret'.app]).tag = PyStr(<<ret'.op>>)]_vars

\* C8: the registered component's properties hold every key of the explicit
\* mapping and of the keyword arguments, a key of both has the explicit
\* mapping's value; with no explicit mapping they are the keyword arguments.
C8_ShortcutMerge ==
    ret.op \in Shortcuts =>
        LET attrs == Last(_components[ret.app]).properties
        IN  IF ret.properties = None THEN attrs = ret.kwargs
            ELSE /\ Keys(ret.properties) \cup Keys(ret.kwargs) \subseteq Keys(attrs)
                 /\ \A key \in Keys(ret.properties) \cap Keys(ret.kwargs) :
                        Lookup(attrs, key) = Lookup(ret.properties, key)

C8_Witness ==
    /\ ret.op = "button"
    /\ ret.properties # None
    /\ "class" \in Keys(ret.properties) \cap Keys(ret.kwargs)
    /\ "style" \in Keys(ret.kwargs)
    /\ Lookup(ret.properties, "class") # Lookup(ret.kwargs, "class")
    /\ Len(_components["ui"]) = 2

RECURSIVE ScalarOrNested(_)
ScalarOrNested(c) ==
    isinstance(c.data, "list") =>
        \A i \in 1..Len(c.data.items) :
            /\ isinstance(c.data.items[i], "UIComponent")
            /\ ScalarOrNested(c.data.items[i])

\* C3: render() of a component whose content is null, a scalar of any type or
\* a list of such components returns a string; scalar content is embedded,
\* converted to a string, between the tags.
C3_RenderTotal ==
    (ret.op = "render" /\ ScalarOrNested(component)) =>
        /\ ret.result.exc = "none"
        /\ isinstance(ret.result.ret, "str")
        /\ (~isinstance(component.data, "list") /\ component.data # None) =>
                \E attrs \in {SubSeq(ret.result.ret.s, 4, k) :
                                k \in 3..Len(ret.result.ret.s)} :
                    ret.result.ret.s = OpenTag(component, attrs)
                                        \o Format(component.data)
                                        \o CloseTag(component)

RECURSIVE ExpectedAttrs(_)
ExpectedAttrs(entries) ==
    IF entries = <<>> THEN <<>>
    ELSE LET key == Head(entries)[1]
             value == Head(entries)[2]
         IN  <<key, "=">>
                \o (IF value.kind = "str" THEN <<"\"">> \o value.s \o <<"\"">>
                    ELSE IF value.kind = "int" THEN <<NatDigits(value.n)>>
                    ELSE IF value.b THEN <<"True">> ELSE <<"False">>)
                \o (IF Len(entries) > 1 THEN <<" ">> ELSE <<>>)
                \o ExpectedAttrs(Tail(entries))

RECURSIVE ExpectedRender(_)
ExpectedRender(c) ==
    OpenTag(c, IF c.properties = None THEN <<>>
               ELSE ExpectedAttrs(c.properties.entries))
        \o (IF c.data = None THEN <<>>
            ELSE IF c.data.kind = "str" THEN c.data.s
            ELSE Concat([i \in 1..Len(c.data.items) |->
                            ExpectedRender(c.data.items[i])]))
        \o CloseTag(c)

\* C5: render() of a well-formed component with string, null or list content
\* is <tag attrs>body</tag>: attrs the properties in insertion order joined
\* by one space, key=value, string values in double quotes and other values
\* bare; body empty, the string, or the children's render() in list order.
C5_RenderFormat ==
    (ret.op = "render" /\ TextOnly(component)) =>
        ret.result = Return(PyStr(ExpectedRender(component)))

C5_Witness ==
    /\ ret.op = "render"
    /\ TextOnly(component)
    /\ Depth(component) = 2
    /\ Len(component.data.items) = 3
    /\ \E i \in 1..Len(component.data.items) :
          LET child == component.data.items[i]
          IN  /\ Depth(child) = 1
              /\ \E j \in 1..Len(child.data.items) :
                    /\ Truthy(child.data.items[j].properties)
                    /\ child.data.items[j].data = PyStr(<<"it", "'", "s">>)

\* What the renderers give for an app when called now.
StylesNow(app) ==
    CachedCall(styles_cache, app,
               _render_pregenerated_styles(_pregenerated_styles[app]))[1]

ComponentsNow(app) ==
    CachedCall(components_cache, app, _render_components(_components[app]))[1]

Renderers == {"_render_components", "_render_pregenerated_styles"}

RECURSIVE FirstRegistered(_, _)
FirstRegistered(calls, seen) ==
    IF calls = <<>> THEN <<>>
    ELSE IF Head(calls)[1] \in seen THEN FirstRegistered(Tail(calls), seen)
    ELSE <<Head(calls)[1]>>
            \o FirstRegistered(Tail(calls), seen \cup {Head(calls)[1]})

LastDeclared(calls, selector) ==
    calls[CHOOSE i \in 1..Len(calls) :
            /\ calls[i][1] = selector
            /\ \A j \in (i + 1)..Len(calls) : calls[j][1] # selector][2]

RECURSIVE ExpectedDeclarations(_)
ExpectedDeclarations(entries) ==
    IF entries = <<>> THEN <<>>
    ELSE <<Head(entries)[1], ": ">> \o Format(Head(entries)[2])
            \o (IF Len(entries) > 1 THEN <<",\n">> ELSE <<>>)
            \o ExpectedDeclarations(Tail(entries))

RECURSIVE ExpectedBlocks(_, _)
ExpectedBlocks(selectors, calls) ==
    IF selectors = <<>> THEN <<>>
    ELSE <<Head(selectors), "{">>
            \o ExpectedDeclarations(LastDeclared(calls, Head(selectors)).entries)
            \o <<"}">>
            \o (IF Len(selectors) > 1 THEN <<"\n">> ELSE <<>>)
            \o ExpectedBlocks(Tail(selectors), calls)

\* C7: the first _render_pregenerated_styles() of an app gives one block per
\* selector, in the order the selectors were first registered, joined by a
\* newline; a block is the selector, {, the declarations of the last style()
\* call for that selector as "prop: value" joined by comma-newline, then }.
C7_StylesFormat ==
    (ret.op = "_render_pregenerated_styles" /\ ret.first) =>
        ret.result =
            Return(PyStr(ExpectedBlocks(FirstRegistered(style_calls[ret.app], {}),
                                        style_calls[ret.app])))

C7_Witness ==
    /\ ret.op = "_render_pregenerated_styles"
    /\ ret.first
    /\ ret.app = "ui"
    /\ style_calls["ui"] = << <<".a", Red>>, <<".b", Red>>, <<".a", Sized>> >>
    /\ styles_cache # <<>>

\* C6: once a renderer has returned a value for an app, every later call of
\* it on that app returns the same value.
C6_CachedForever ==
    (ret.op \in Renderers /\ ret.result.exc = "none") =>
        ret.result =
            IF ret.op = "_render_components"
            THEN first_returned[ret.app].components
            ELSE first_returned[ret.app].styles

\* C10: a call on one app leaves what the renderers give for every other app
\* as it was.
C10_Isolation ==
    [][\A app \in Apps :
        ret'.app # app =>
            /\ StylesNow(app)' = StylesNow(app)
            /\ ComponentsNow(app)' = ComponentsNow(app)]_vars

Malformed(c) == ~NestedOk(c)

MalformedError(result, cs) ==
    /\ result.exc = "ValueError"
    /\ \E c \in cs : \E e \in BadElements(c) :
            result.msg =
                <<"Expected UIComponent nested data to contain list of UIComponents but got ">>
                \o FormatType(e)

\* C4: a component with a non-component element in a content list, at any
\* depth, is registered without error; render() of it, and each
\* _render_components() and _generate_html_content() that renders it, raise
\* the ValueError naming that element's type and return nothing.
C4_MalformedAborts ==
    /\ ret.op = "add_component" => ret.result.exc = "none"
    /\ \A app \in Apps : \A i \in 1..Len(_components[app]) :
            Malformed(_components[app][i]) =>
                MalformedError(render(_components[app][i]), {_components[app][i]})
    /\ (/\ ret.op \in {"_render_components", "_generate_html_content"}
        /\ ret.rendered
        /\ \E i \in 1..Len(_components[ret.app]) :
                Malformed(_components[ret.app][i])) =>
            MalformedError(ret.result,
                           {_components[ret.app][i] :
                                i \in 1..Len(_components[ret.app])})

IndexOf(tokens, t) == CHOOSE i \in 1..Len(tokens) : tokens[i] = t

Between(tokens, open, close) ==
    SubSeq(tokens, IndexOf(tokens, open) + 1, IndexOf(tokens, close) - 1)

Blank == {"\n", "\n    ", "\n        ", " "}

RECURSIVE Strip(_)
Strip(tokens) ==
    IF tokens = <<>> THEN <<>>
    ELSE IF Head(tokens) \in Blank THEN Strip(Tail(tokens))
    ELSE IF Last(tokens) \in Blank THEN Strip(SubSeq(tokens, 1, Len(tokens) - 1))
    ELSE tokens

AllRender(cs) == \A i \in 1..Len(cs) : render(cs[i]).exc = "none"

\* C2: when every component renders, the first _generate_html_content() of
\* an app holds, in this order, <title>title</title>, <style>the rendered
\* styles</style> and <body>...</body> whose text, blanks aside, is the
\* components' render() strings one after the other and nothing else.
C2_DocumentLayout ==
    (/\ ret.op = "_generate_html_content"
     /\ ret.first
     /\ AllRender(_components[ret.app])) =>
        /\ ret.result.exc = "none"
        /\ LET doc == ret.result.ret.s
               cs == _components[ret.app]
           IN  /\ HasToken(doc, "<title>") /\ HasToken(doc, "</title>")
               /\ HasToken(doc, "<style>") /\ HasToken(doc, "</style>")
               /\ HasToken(doc, "<body>") /\ HasToken(doc, "</body>")
               /\ IndexOf(doc, "</title>") < IndexOf(doc, "<style>")
               /\ IndexOf(doc, "</style>") < IndexOf(doc, "<body>")
               /\ Between(doc, "<title>", "</title>") = _default_title.s
               /\ Between(doc, "<style>", "</style>")
                    = _render_pregenerated_styles(_pregenerated_styles[ret.app]).ret.s
               /\ Strip(Between(doc, "<body>", "</body>"))
                    = Concat([i \in 1..Len(cs) |-> render(cs[i]).ret.s])

\* C9 as stated: every request handled ends with status 200 and the document
\* a lone _generate_html_content() gives.
C9_AlwaysOk ==
    \A r \in Requests :
        pc[r] = "done" =>
            /\ response[r].exc = "none"
            /\ response[r].ret.status_code = 200
            /\ response[r].ret.content = Generated(serving)[1].ret

\* C9: when a lone _generate_html_content() on the served app returns a
\* document, every request handled, however the handlers interleave, ends
\* with status 200 and that document; when it raises, so does every handler.
C9_ConcurrentSafe ==
    \A r \in Requests :
        pc[r] = "done" =>
            LET alone == Generated(serving)[1]
            IN  IF alone.exc = "none"
                THEN response[r] = Return(HTMLResponse(alone.ret, 200))
                ELSE response[r] = alone

\* One request has answered while another, which missed the cache before the
\* first stored its result, still holds its own rendering.
C9_Witness ==
    \E r1, r2 \in Requests :
        /\ pc[r1] = "done"
        /\ response[r1].exc = "none"
        /\ response[r1].ret.status_code = 200
        /\ pc[r2] = "components_store"
        /\ Len(_components[serving]) = 2
        /\ Len(_pregenerated_styles[serving].entries) = 1
=============================================================================
